---- MODULE Spec2Model ----
(***************************************************************************)
(* Cross-entropy training on FrozenLake (Chapter04/02_frozenlake_naive.py). *)
(*                                                                         *)
(* The model covers the observation wrapper, the episode generator         *)
(* iterate_batches, the elite filter filter_batch and the training loop of *)
(* __main__.  The environment and the policy network are black boxes: the  *)
(* environment picks its next raw state, step reward and done flag freely, *)
(* np.random.choice picks any action.  Rewards are integers; the reward    *)
(* bound is held multiplied by 100 and the mean as a (sum, n) pair, so     *)
(* that np.percentile's interpolation and the comparison with 0.8 are      *)
(* exact.                                                                  *)
(***************************************************************************)
EXTENDS Integers, Sequences, FiniteSets

VARIABLES
    pc,              \* "run": generator inside its while loop; "yielded": suspended
                     \* at line 77 with the batch bound by the for loop (line 111);
                     \* "done": after the break; "fault": the forward pass raised;
                     \* "call"/"ret": before and after filter_batch called alone
    gymnasium,       \* module flag, lines 11-16
    batch_size,      \* iterate_batches parameter
    percentile,      \* filter_batch parameter
    low,             \* env.observation_space.low
    env_state,       \* raw state index held by the wrapped environment
    env_log,         \* environment side: (state, action) of each step of the running
                     \* episode, and the reward it has paid out so far
    done_log,        \* environment side: logs of the episodes finished since the
                     \* generator last emptied its batch
    obs,             \* generator locals
    next_obs,
    episode_reward,
    episode_steps,
    batch,
    train_obs,       \* __main__ locals obs_v, acts_v, reward_b, reward_m
    train_act,
    reward_bound,
    reward_mean,
    grad_done        \* optimizer.step() has run for the batch in hand

vars == <<pc, gymnasium, batch_size, percentile, low, env_state, env_log, done_log,
          obs, next_obs, episode_reward, episode_steps, batch,
          train_obs, train_act, reward_bound, reward_mean, grad_done>>

----------------------------------------------------------------------------
(* Bounds and input sets *)

MaxEpLen == 2                \* the environment reports done at this step at the latest
MaxBatchLen == 4             \* longest batch handed to filter_batch alone

PERCENTILE == 70
StateIndices == {0, 1}       \* range(env.observation_space.n)
Actions == {0, 1}            \* range(len(act_probs))
StepRewards == {0, 1}        \* reward of one env.step
BatchSizes == {1, 2}         \* batch_size values tried
Percentiles == {0, 1, 30, 50, 70, 99, 100}
EpisodeRewards == {0, 1}     \* total rewards of the episodes handed to filter_batch alone
EpisodeLengths == {0, 1, 2}  \* their step counts

n == Cardinality(StateIndices)

----------------------------------------------------------------------------
(* DiscreteOneHotWrapper *)

\* Box(0.0, 1.0, shape).low: n zeros
Zeros == [k \in 1..n |-> 0]

\* observation() writing into the space's own array instead of a copy
observation_nocopy(l, i) ==
    LET res == [l EXCEPT ![i + 1] = 1]
    IN  [res |-> res, low |-> res]

\* observation(): res = np.copy(low); res[observation] = 1.0
observation(l, i) ==
    LET res == [l EXCEPT ![i + 1] = 1]
    IN  [res |-> res, low |-> l]

\* What env.reset() hands back: (obs, info) under gymnasium, obs under gym
ResetValue(g, arr) == [tuple |-> g, data |-> arr]

\* What env.step() hands back as next_obs: the array itself
StepValue(arr) == [tuple |-> FALSE, data |-> arr]

----------------------------------------------------------------------------
(* iterate_batches *)

\* line 60 without the unwrapping
KeepObs(o) == o

\* obs = obs[0] if isinstance(obs, tuple) else obs
Unwrap(o) == IF o.tuple THEN [tuple |-> FALSE, data |-> o.data] ELSE o

EpisodeStep(o, a) == [observation |-> o, action |-> a]

Episode(r, s) == [reward |-> r, steps |-> s]

\* the batch is handed out one episode early
BatchFullEarly(b, size) == Len(b) + 1 >= size

\* len(batch) == batch_size
BatchFull(b, size) == Len(b) = size

NoLog == [steps |-> <<>>, paid |-> 0]

\* One pass of the while loop, lines 60-79, up to the yield if it yields.
\* env.step's fourth and fifth results are dropped by lines 66 and 68.
Step ==
    /\ pc = "run"
    /\ \E action \in Actions, s2 \in StateIndices, reward \in StepRewards,
          is_done \in BOOLEAN :
        LET o       == Unwrap(obs)
            stepped == observation(low, s2)
            er      == episode_reward + reward
            st      == Append(episode_steps, EpisodeStep(o, action))
            log     == [steps |-> Append(env_log.steps,
                                         [state |-> env_state, action |-> action]),
                        paid  |-> env_log.paid + reward]
            b1      == Append(batch, Episode(er, st))
        IN  /\ Len(st) >= MaxEpLen => is_done
            /\ IF is_done
               THEN \E s3 \in StateIndices :
                    LET fresh == observation(stepped.low, s3)
                    IN  /\ batch' = b1
                        /\ episode_reward' = 0
                        /\ episode_steps' = <<>>
                        /\ env_state' = s3
                        /\ env_log' = NoLog
                        /\ done_log' = Append(done_log, log)
                        /\ low' = fresh.low
                        /\ next_obs' = ResetValue(gymnasium, fresh.res)
                        /\ IF BatchFull(b1, batch_size)
                           THEN /\ pc' = "yielded"
                                /\ obs' = o
                                /\ grad_done' = FALSE
                           ELSE /\ pc' = "run"
                                /\ obs' = next_obs'
                                /\ UNCHANGED grad_done
               ELSE /\ env_state' = s2
                    /\ env_log' = log
                    /\ low' = stepped.low
                    /\ next_obs' = StepValue(stepped.res)
                    /\ obs' = next_obs'
                    /\ pc' = "run"
                    /\ episode_reward' = er
                    /\ episode_steps' = st
                    /\ UNCHANGED <<batch, done_log, grad_done>>
    /\ UNCHANGED <<gymnasium, batch_size, percentile,
                   train_obs, train_act, reward_bound, reward_mean>>

----------------------------------------------------------------------------
(* filter_batch *)

RECURSIVE Insert(_, _)
Insert(x, s) ==
    IF s = <<>> THEN <<x>>
    ELSE IF x <= Head(s) THEN <<x>> \o s
    ELSE <<Head(s)>> \o Insert(x, Tail(s))

RECURSIVE Sorted(_)
Sorted(s) == IF s = <<>> THEN <<>> ELSE Insert(Head(s), Sorted(Tail(s)))

RECURSIVE SumSeq(_)
SumSeq(s) == IF s = <<>> THEN 0 ELSE Head(s) + SumSeq(Tail(s))

\* interpolation that adds the upper neighbour instead of the difference
PercentileNoDiff(rewards, q) ==
    LET s  == Sorted(rewards)
        k  == (Len(s) - 1) * q
        lo == k \div 100
        hi == IF lo + 2 <= Len(s) THEN lo + 2 ELSE Len(s)
    IN  100 * s[lo + 1] + s[hi] * (k % 100)

\* the percentile counted from the top
PercentileFromTop(rewards, q) ==
    LET s  == Sorted(rewards)
        k  == (Len(s) - 1) * (100 - q)
        lo == k \div 100
        hi == IF lo + 2 <= Len(s) THEN lo + 2 ELSE Len(s)
    IN  100 * s[lo + 1] + (s[hi] - s[lo + 1]) * (k % 100)

\* np.percentile(rewards, q), default linear interpolation, times 100:
\* the virtual index (len-1)*q/100 splits into lo and the fraction (k % 100)/100
Percentile(rewards, q) ==
    LET s  == Sorted(rewards)
        k  == (Len(s) - 1) * q
        lo == k \div 100
        hi == IF lo + 2 <= Len(s) THEN lo + 2 ELSE Len(s)
    IN  100 * s[lo + 1] + (s[hi] - s[lo + 1]) * (k % 100)

\* float(np.mean(rewards)) as the pair (sum, count)
Mean(rewards) == [sum |-> SumSeq(rewards), n |-> Len(rewards)]

\* the test of line 90 turned round
SkipInverted(example, bound) == 100 * example.reward > bound

\* the test of line 90 with <= for <
SkipOrEqual(example, bound) == 100 * example.reward <= bound

\* example.reward < reward_bound, the bound being held times 100
Skip(example, bound) == 100 * example.reward < bound

\* steps gathered in reverse
ObservationsReversed(steps) ==
    [k \in 1..Len(steps) |-> steps[Len(steps) + 1 - k].observation]

\* map(lambda step: step.observation, example.steps)
Observations(steps) == [k \in 1..Len(steps) |-> steps[k].observation]

\* map(lambda step: step.action, example.steps)
ActionsOf(steps) == [k \in 1..Len(steps) |-> steps[k].action]

\* loop body with the actions gathered before the test of line 90
FilterOneActsFirst(acc, example, bound) ==
    IF Skip(example, bound)
    THEN [obs |-> acc.obs, act |-> acc.act \o ActionsOf(example.steps)]
    ELSE [obs |-> acc.obs \o Observations(example.steps),
          act |-> acc.act \o ActionsOf(example.steps)]

\* lines 90-93: one pass of the for loop
FilterOne(acc, example, bound) ==
    IF Skip(example, bound)
    THEN acc
    ELSE [obs |-> acc.obs \o Observations(example.steps),
          act |-> acc.act \o ActionsOf(example.steps)]

\* lines 87-93: the for loop from episode i on
RECURSIVE FilterLoop(_, _, _, _)
FilterLoop(b, bound, i, acc) ==
    IF i > Len(b) THEN acc
    ELSE FilterLoop(b, bound, i + 1, FilterOne(acc, b[i], bound))

filter_batch(b, q) ==
    LET rewards == [i \in 1..Len(b) |-> b[i].reward]
        bound   == Percentile(rewards, q)
        acc     == FilterLoop(b, bound, 1, [obs |-> <<>>, act |-> <<>>])
    IN  [train_obs |-> acc.obs, train_act |-> acc.act,
         reward_bound |-> bound, reward_mean |-> Mean(rewards)]

----------------------------------------------------------------------------
(* __main__ *)

\* the threshold test on the wrong side
SolvedBelow(m) == 10 * m.sum < 8 * m.n

\* reward_m > 0.8
Solved(m) == 10 * m.sum > 8 * m.n

\* The body of the for loop, lines 112-124, for the batch just yielded; when it
\* does not break, the generator is resumed and runs lines 78-79.  The forward
\* pass of line 114 faults on an empty training tensor.  obs_v, acts_v,
\* reward_b and reward_m are rebound by the next pass before any use, so the
\* model holds them only once the loop is left.
Train ==
    /\ pc = "yielded"
    /\ LET r == filter_batch(batch, percentile)
       IN  IF r.train_obs = <<>>
           THEN /\ pc' = "fault"
                /\ train_obs' = r.train_obs
                /\ train_act' = r.train_act
                /\ reward_bound' = r.reward_bound
                /\ reward_mean' = r.reward_mean
                /\ UNCHANGED <<grad_done, batch, obs>>
           ELSE /\ grad_done' = TRUE
                /\ IF Solved(r.reward_mean)
                   THEN /\ pc' = "done"
                        /\ train_obs' = r.train_obs
                        /\ train_act' = r.train_act
                        /\ reward_bound' = r.reward_bound
                        /\ reward_mean' = r.reward_mean
                        /\ UNCHANGED <<batch, obs>>
                   ELSE /\ pc' = "run"
                        /\ batch' = <<>>
                        /\ obs' = next_obs
                        /\ UNCHANGED <<train_obs, train_act, reward_bound,
                                       reward_mean>>
    /\ done_log' = IF pc' = "run" THEN <<>> ELSE done_log
    /\ UNCHANGED <<gymnasium, batch_size, percentile, low, env_state, env_log,
                   next_obs, episode_reward, episode_steps>>

NoMean == [sum |-> 0, n |-> 0]

\* State when the for loop first asks the generator for a batch: lines 102-109
\* and 54-57 have run.
Init ==
    /\ pc = "run"
    /\ gymnasium \in BOOLEAN
    /\ batch_size \in BatchSizes
    /\ percentile = PERCENTILE
    /\ env_state \in StateIndices
    /\ env_log = NoLog
    /\ done_log = <<>>
    /\ low = observation(Zeros, env_state).low
    /\ obs = ResetValue(gymnasium, observation(Zeros, env_state).res)
    /\ next_obs = obs
    /\ episode_reward = 0
    /\ episode_steps = <<>>
    /\ batch = <<>>
    /\ train_obs = <<>>
    /\ train_act = <<>>
    /\ reward_bound = 0
    /\ reward_mean = NoMean
    /\ grad_done = FALSE

Next == Step \/ Train

Spec == Init /\ [][Next]_vars

----------------------------------------------------------------------------
(* filter_batch on its own: any batch, any percentile *)

\* Episode i of a batch of the given rewards and step counts; every step
\* carries an observation and an action found nowhere else in the batch.
TaggedEpisode(i, r, len) ==
    Episode(r, [j \in 1..len |-> EpisodeStep(<<i, j>>, 10 * i + j)])

FilterBatches ==
    UNION { { [i \in 1..len |-> TaggedEpisode(i, f[i][1], f[i][2])] :
              f \in [1..len -> EpisodeRewards \X EpisodeLengths] } :
            len \in 1..MaxBatchLen }

InitFilter ==
    /\ pc = "call"
    /\ batch \in FilterBatches
    /\ percentile \in Percentiles
    /\ gymnasium = FALSE
    /\ batch_size = Len(batch)
    /\ env_state = 0
    /\ env_log = NoLog
    /\ done_log = <<>>
    /\ low = Zeros
    /\ obs = StepValue(Zeros)
    /\ next_obs = obs
    /\ episode_reward = 0
    /\ episode_steps = <<>>
    /\ train_obs = <<>>
    /\ train_act = <<>>
    /\ reward_bound = 0
    /\ reward_mean = NoMean
    /\ grad_done = FALSE

\* train_obs_v, train_act_v, reward_bound, reward_mean = filter_batch(batch, percentile)
FilterCall ==
    /\ pc = "call"
    /\ LET r == filter_batch(batch, percentile)
       IN  /\ train_obs' = r.train_obs
           /\ train_act' = r.train_act
           /\ reward_bound' = r.reward_bound
           /\ reward_mean' = r.reward_mean
    /\ pc' = "ret"
    /\ UNCHANGED <<gymnasium, batch_size, percentile, low, env_state, env_log,
                   done_log, obs, next_obs, episode_reward, episode_steps, batch,
                   grad_done>>

NextFilter == FilterCall

SpecFilter == InitFilter /\ [][NextFilter]_vars

----------------------------------------------------------------------------
(* Reference notions used by the properties *)

\* the one-hot vector of state index i, written out entry by entry
OneHotOf(i) == [k \in 1..n |-> IF k = i + 1 THEN 1 ELSE 0]

Rewards(b) == [i \in 1..Len(b) |-> b[i].reward]

RewardTotal(b) ==
    LET RECURSIVE upto(_)
        upto(i) == IF i = 0 THEN 0 ELSE upto(i - 1) + b[i].reward
    IN  upto(Len(b))

StepTotal(b) ==
    LET RECURSIVE upto(_)
        upto(i) == IF i = 0 THEN 0 ELSE upto(i - 1) + Len(b[i].steps)
    IN  upto(Len(b))

MaxReward(b) == CHOOSE v \in {b[i].reward : i \in 1..Len(b)} :
                    \A i \in 1..Len(b) : b[i].reward <= v

\* k-th smallest of rs, by counting
OrderStat(rs, k) ==
    CHOOSE v \in {rs[i] : i \in 1..Len(rs)} :
        /\ Cardinality({i \in 1..Len(rs) : rs[i] < v}) < k
        /\ k <= Cardinality({i \in 1..Len(rs) : rs[i] <= v})

\* the q-th percentile of rs by linear interpolation between the two order
\* statistics around position 1 + (len-1)*q/100, times 100
RefPercentile(rs, q) ==
    LET k  == (Len(rs) - 1) * q
        lo == (k \div 100) + 1
        hi == IF lo < Len(rs) THEN lo + 1 ELSE lo
    IN  100 * OrderStat(rs, lo) + (OrderStat(rs, hi) - OrderStat(rs, lo)) * (k % 100)

\* positions of train_obs holding a step of episode i of a tagged batch
PositionsOf(i) == {k \in 1..Len(train_obs) : train_obs[k][1] = i}

\* episode i of a tagged batch is in the training data whole, in step order
KeptWhole(i) ==
    /\ Cardinality(PositionsOf(i)) = Len(batch[i].steps)
    /\ \A j \in 1..Len(batch[i].steps) : \E k \in 1..Len(train_obs) :
           /\ train_obs[k] = batch[i].steps[j].observation
           /\ train_act[k] = batch[i].steps[j].action

----------------------------------------------------------------------------
(* Properties *)

\* C1: a batch is handed to the training loop only with exactly batch_size
\* episodes in it; while the generator runs the batch is shorter than that;
\* and the batch holds only episodes finished since it was last emptied, so
\* no episode of an earlier batch is in it.
C1_BatchExact ==
    /\ pc \in {"yielded", "done", "fault"} => Len(batch) = batch_size
    /\ pc = "run" => Len(batch) < batch_size
    /\ Len(batch) = Len(done_log)

C1_Witness == pc = "yielded" /\ batch_size = 2 /\ Len(batch) = 2

\* C2: the reward bound is the percentile of the batch's own rewards, and an
\* episode's steps are in the training data if and only if its reward is at
\* least that bound; an episode below the bound contributes nothing.
C2_RetainIff ==
    pc = "ret" =>
        /\ reward_bound = RefPercentile(Rewards(batch), percentile)
        /\ \A i \in 1..Len(batch) :
              IF 100 * batch[i].reward >= reward_bound
              THEN KeptWhole(i)
              ELSE PositionsOf(i) = {}

C2_Witness ==
    /\ pc = "ret"
    /\ reward_bound % 100 # 0
    /\ \E i, j \in 1..Len(batch) :
          /\ Len(batch[i].steps) = 2 /\ 100 * batch[i].reward >= reward_bound
          /\ Len(batch[j].steps) = 2 /\ 100 * batch[j].reward < reward_bound

\* C3: the training observations are the retained episodes' steps in batch
\* order and, within an episode, in step order; the action at each position
\* is the action of the very step the observation at that position is from.
C3_Order ==
    pc = "ret" =>
        /\ Len(train_obs) = Len(train_act)
        /\ \A k \in 1..Len(train_obs) :
              LET i == train_obs[k][1]
                  j == train_obs[k][2]
              IN  /\ i \in 1..Len(batch)
                  /\ j \in 1..Len(batch[i].steps)
                  /\ 100 * batch[i].reward >= reward_bound
                  /\ train_obs[k] = batch[i].steps[j].observation
                  /\ k <= Len(train_act) => train_act[k] = batch[i].steps[j].action
        /\ \A k, l \in 1..Len(train_obs) :
              k < l => \/ train_obs[k][1] < train_obs[l][1]
                       \/ /\ train_obs[k][1] = train_obs[l][1]
                          /\ train_obs[k][2] < train_obs[l][2]
        /\ \A i \in 1..Len(batch) :
              100 * batch[i].reward >= reward_bound =>
                  Cardinality(PositionsOf(i)) = Len(batch[i].steps)

C3_Witness ==
    /\ pc = "ret"
    /\ Len(batch) >= 3
    /\ Len(batch[1].steps) = 2 /\ 100 * batch[1].reward >= reward_bound
    /\ Len(batch[2].steps) = 2 /\ 100 * batch[2].reward < reward_bound
    /\ Len(batch[3].steps) = 2 /\ 100 * batch[3].reward >= reward_bound

\* C4: the loop body leaves the loop exactly when the mean reward of its batch
\* is above 0.8, and then only after the gradient step; otherwise the generator
\* is resumed.  Nothing else ends the loop, nothing runs after the break, and
\* the loop is never cut short by a fault.
C4_StopRule ==
    /\ [][pc = "yielded" =>
            /\ (pc' = "done") <=> (10 * RewardTotal(batch) > 8 * Len(batch))
            /\ (pc' = "run") <=> (10 * RewardTotal(batch) <= 8 * Len(batch))
            /\ grad_done']_vars
    /\ [][pc = "run" => pc' \in {"run", "yielded"}]_vars
    /\ [][pc # "done"]_vars
    /\ [](pc = "done" => /\ grad_done
                         /\ reward_mean = [sum |-> RewardTotal(batch), n |-> Len(batch)]
                         /\ 10 * RewardTotal(batch) > 8 * Len(batch))
    /\ [](pc \in {"run", "yielded", "done"})

C4_Witness ==
    /\ pc = "done"
    /\ Len(batch) = 2
    /\ batch[1].reward = 0
    /\ batch[2].reward = 2

\* C5: for four episodes whose rewards are 0, 0, 1, 1 and percentile 70 the
\* bound is 1, both episodes of reward 1 are retained whole and nothing of
\* the episodes of reward 0 is.
C5_Example ==
    (pc = "ret" /\ percentile = 70 /\ Len(batch) = 4
        /\ Cardinality({i \in 1..4 : batch[i].reward = 0}) = 2
        /\ Cardinality({i \in 1..4 : batch[i].reward = 1}) = 2) =>
        /\ reward_bound = 100
        /\ \A i \in 1..4 :
              IF batch[i].reward = 1 THEN KeptWhole(i) ELSE PositionsOf(i) = {}
        /\ Len(train_obs) = StepTotal(SelectSeq(batch, LAMBDA e : e.reward = 1))

C5_Witness ==
    /\ pc = "ret"
    /\ percentile = 70
    /\ Rewards(batch) = <<0, 0, 1, 1>>
    /\ \A i \in 1..4 : Len(batch[i].steps) = 2
    /\ Len(train_obs) = 4

\* C6: when every episode of the batch has the same reward r, the reward bound
\* is r, whatever the percentile.
C6_AllEqual ==
    (pc = "ret" /\ \A i \in 1..Len(batch) : batch[i].reward = batch[1].reward) =>
        reward_bound = 100 * batch[1].reward

C6_Witness ==
    /\ pc = "ret"
    /\ Len(batch) = 3
    /\ percentile = 30
    /\ \A i \in 1..3 : batch[i].reward = 1

\* C7: filter_batch returns as many training actions as training observations,
\* and no more of them than the batch has steps.
C7_NoMorePairs ==
    pc = "ret" =>
        /\ Len(train_obs) = Len(train_act)
        /\ Len(train_obs) <= StepTotal(batch)

C7_Witness ==
    /\ pc = "ret"
    /\ Len(train_obs) >= 1
    /\ Len(train_obs) < StepTotal(batch)

\* C8: the observation the generator holds for the environment's state i is a
\* vector of n entries, 1 at position i and 0 elsewhere, and the space's low
\* array is still all zeros after any number of encodings.
C8_OneHot ==
    /\ low = Zeros
    /\ Len(next_obs.data) = n
    /\ next_obs.data = OneHotOf(env_state)
    /\ pc = "run" => Unwrap(obs).data = OneHotOf(env_state)

C8_Witness ==
    /\ pc = "run"
    /\ Len(env_log.steps) = 1
    /\ env_log.steps[1].state = 0
    /\ env_state = 1
    /\ obs.data = <<0, 1>>

C10_NonEmpty ==
    /\ pc # "fault"
    /\ \A i \in 1..Len(batch) : Len(batch[i].steps) >= 1
    /\ pc = "yielded" =>
          \A q \in Percentiles :
              LET r == filter_batch(batch, q)
              IN  /\ r.reward_bound <= 100 * MaxReward(batch)
                  /\ r.train_obs # <<>>
                  /\ Len(r.train_obs) >=
                        StepTotal(SelectSeq(batch, LAMBDA e : e.reward = MaxReward(batch)))

C10_Witness ==
    /\ pc = "yielded"
    /\ Len(batch) = 2
    /\ batch[1].reward = 2
    /\ batch[2].reward = 0
    /\ Len(filter_batch(batch, 50).train_obs) = Len(batch[1].steps)

====
